---- MODULE Spec2Model ----
(***************************************************************************)
(* Model of the ingestion service: the dispatcher of main.py, the provider *)
(* adapters of providers.py and the section splitter of fetch_cmfri.py.    *)
(*                                                                         *)
(* Encoding of Python values.  A JSON scalar is the string of its literal  *)
(* ("null", "1.5", "42"); a text that the code takes apart (joined with    *)
(* ",", split, stripped, searched) is a sequence of tokens, each token an  *)
(* indivisible run of characters; a dict is a TLA+ record whose DOMAIN is  *)
(* the set of keys that are present.                                       *)
(***************************************************************************)
EXTENDS Integers, Sequences, FiniteSets, TLC

VARIABLES
    database,   \* main.py: the process-wide list `database`
    request,    \* the ingestion request being served and the upstream's replies to it
    response,   \* the HTTP answer to that request
    omIn,       \* fetch_open_meteo: payload and upstream JSON
    omOut,      \* fetch_open_meteo: what the call produced
    noaaIn,     \* fetch_noaa: payload and the upstream's replies
    noaaPc,     \* fetch_noaa: position in the function body
    noaaCalls,  \* fetch_noaa: the external calls issued so far, in order
    noaaMeta,   \* fetch_noaa: the local `meta`
    noaaOut,    \* fetch_noaa: what the call produced
    fishIn,     \* fetch_fisheries: the upstream it talks to
    fishPc,     \* fetch_fisheries: position in the function body
    fishOffset, \* fetch_fisheries: the local `offset`
    fishAll,    \* fetch_fisheries: the local `all_records`
    fishCalls,  \* fetch_fisheries: the offsets of the calls issued so far, in order
    woIn,       \* fetch_worms: payload and upstream JSON
    woOut,      \* fetch_worms: what the call produced
    spIn,       \* split_sections: the text
    spOut,      \* split_sections: what the call produced
    scIn,       \* scrape_technical_reports: limit, listing page and record pages
    scPc,       \* scrape_technical_reports: position in the function body
    scIdx,      \* scrape_technical_reports: the listing link the loop is at
    scLinks,    \* scrape_technical_reports: the local `pdf_links`
    scCount,    \* scrape_technical_reports: the local `count`
    scFetched   \* scrape_technical_reports: the record pages fetched so far, in order

vars == <<database, request, response, omIn, omOut,
          noaaIn, noaaPc, noaaCalls, noaaMeta, noaaOut,
          fishIn, fishPc, fishOffset, fishAll, fishCalls,
          woIn, woOut, spIn, spOut,
          scIn, scPc, scIdx, scLinks, scCount, scFetched>>

ingestVars == <<database, request, response>>
omVars     == <<omIn, omOut>>
noaaVars   == <<noaaIn, noaaPc, noaaCalls, noaaMeta, noaaOut>>
fishVars   == <<fishIn, fishPc, fishOffset, fishAll, fishCalls>>
woVars     == <<woIn, woOut>>
spVars     == <<spIn, spOut>>
scVars     == <<scIn, scPc, scIdx, scLinks, scCount, scFetched>>

\* what a component leaves alone: every other component's variables
notIngest == <<omVars, noaaVars, fishVars, woVars, spVars, scVars>>
notMeteo  == <<ingestVars, noaaVars, fishVars, woVars, spVars, scVars>>
notNoaa   == <<ingestVars, omVars, fishVars, woVars, spVars, scVars>>
notFish   == <<ingestVars, omVars, noaaVars, woVars, spVars, scVars>>
notWorms  == <<ingestVars, omVars, noaaVars, fishVars, spVars, scVars>>
notSplit  == <<ingestVars, omVars, noaaVars, fishVars, woVars, scVars>>
notScrape == <<ingestVars, omVars, noaaVars, fishVars, woVars, spVars>>

----------------------------------------------------------------------------
(* Bounds of the model *)

MaxSeries == 2      \* longest upstream series (timestamps, values)

----------------------------------------------------------------------------
(* Python helpers *)

None == "null"

\* dict.get(key, default)
Get(d, key, default) == IF key \in DOMAIN d THEN d[key] ELSE default

Min(a, b) == IF a <= b THEN a ELSE b
Max(a, b) == IF a >= b THEN a ELSE b

\* every sequence over S of length at most n
SeqsUpTo(S, n) == UNION { [1..k -> S] : k \in 0..n }

RECURSIVE Concat(_)
Concat(ss) == IF ss = <<>> THEN <<>> ELSE Head(ss) \o Concat(Tail(ss))

\* an adapter call either returns a list of records or raises
Return(records) == [ok |-> TRUE, records |-> records]
Raise(type, status, message) ==
    [ok |-> FALSE, type |-> type, status |-> status, message |-> message]

\* sep.join(parts), on token sequences
RECURSIVE Join(_, _)
Join(sep, parts) ==
    IF parts = <<>> THEN <<>>
    ELSE IF Len(parts) = 1 THEN parts[1]
    ELSE parts[1] \o <<sep>> \o Join(sep, Tail(parts))

\* text.split(sep), on token sequences: one more piece than separators
RECURSIVE SplitFrom(_, _, _)
SplitFrom(text, sep, piece) ==
    IF text = <<>> THEN <<piece>>
    ELSE IF Head(text) = sep THEN <<piece>> \o SplitFrom(Tail(text), sep, <<>>)
    ELSE SplitFrom(Tail(text), sep, Append(piece, Head(text)))

Split(text, sep) == SplitFrom(text, sep, <<>>)

\* datetime.datetime.fromisoformat: the literals it accepts, and the hour it reads
IsoLiterals == {"2025-01-01T00:00", "2025-01-01T01:00", "2025-01-01 01:00"}

IsIsoFormat(t) == t \in IsoLiterals

fromisoformat(t) ==
    CASE t = "2025-01-01T00:00" -> 0
      [] t = "2025-01-01T01:00" -> 1
      [] t = "2025-01-01 01:00" -> 1

\* datetime.datetime.strptime(t, "%Y-%m-%dT%H:%M:%S"): seconds are required,
\* zero padding is not
StrptimeLiterals == {"2025-1-1T2:0:0"}

IsStrptimeFormat(t) == t \in StrptimeLiterals

strptime(t) == CASE t = "2025-1-1T2:0:0" -> 2

\* str.replace(" ", "T") on the timestamp literals
ReplaceSpaceT(t) == IF t = "2025-01-01 01:00" THEN "2025-01-01T01:00" ELSE t

\* float(x): a JSON number or a numeric string converts, anything else raises.
\* A JSON string is written with its quotes ('12.5'), a number without.
FloatTable ==
    ("12.5" :> "12.5") @@ ("'12.5'" :> "12.5") @@ ("7" :> "7.0") @@ ("'7'" :> "7.0")
    @@ ("0" :> "0.0")

CanFloat(x) == x \in DOMAIN FloatTable

float(x) == FloatTable[x]

\* the value a component's variables keep in a specification that does not run it
IdleIngest ==
    /\ database = <<>>
    /\ request = [kind |-> "none"]
    /\ response = [status |-> 0, detail |-> <<>>, records |-> <<>>]

IdleMeteo == omIn = [payload |-> <<>>] /\ omOut = [done |-> FALSE]

IdleNoaa ==
    /\ noaaIn = [payload |-> <<>>]
    /\ noaaPc = "idle"
    /\ noaaCalls = <<>>
    /\ noaaMeta = <<>>
    /\ noaaOut = [done |-> FALSE]

IdleFish ==
    /\ fishIn = [pages |-> <<>>, end |-> "empty"]
    /\ fishPc = "idle"
    /\ fishOffset = 0
    /\ fishAll = <<>>
    /\ fishCalls = <<>>

IdleWorms == woIn = [payload |-> <<>>] /\ woOut = [done |-> FALSE]

IdleSplit == spIn = <<>> /\ spOut = [done |-> FALSE]

IdleScrape ==
    /\ scIn = [limit |-> 0]
    /\ scPc = "idle"
    /\ scIdx = 0
    /\ scLinks = <<>>
    /\ scCount = 0
    /\ scFetched = <<>>

----------------------------------------------------------------------------
(* providers.py: fetch_open_meteo *)

DefaultHourly == << <<"wave_height">>, <<"sea_surface_temperature">> >>

\* params["hourly"]: the comma-joined parameter list
OmHourlyParam(payload) == Join(",", Get(payload, "hourly", DefaultHourly))

\* data.get("hourly", {}).get(key, [])
OmSeries(data, key) == Get(Get(data, "hourly", <<>>), key, <<>>)

\* the body of the inner loop, without the null test
OmZipLoopNoSkip(lat, lon, param, timestamps, values) ==
    LET n == Min(Len(timestamps), Len(values))
        F[i \in 0..n] ==
            IF i = 0 THEN Return(<<>>)
            ELSE IF ~F[i-1].ok THEN F[i-1]
            ELSE IF ~IsIsoFormat(timestamps[i])
                 THEN Raise("ValueError", 0, <<"Invalid isoformat string">>)
            ELSE Return(Append(F[i-1].records,
                     [latitude  |-> lat,
                      longitude |-> lon,
                      station   |-> None,
                      parameter |-> param,
                      value     |-> values[i],
                      timestamp |-> fromisoformat(timestamps[i]),
                      source    |-> <<"open-meteo">>]))
    IN F[n]

\* for t, v in zip(timestamps, values): skip None, append a StandardizedRecord
OmZipLoop(lat, lon, param, timestamps, values) ==
    LET n == Min(Len(timestamps), Len(values))
        F[i \in 0..n] ==
            IF i = 0 THEN Return(<<>>)
            ELSE IF ~F[i-1].ok THEN F[i-1]
            ELSE IF values[i] = None THEN F[i-1]
            ELSE IF ~IsIsoFormat(timestamps[i])
                 THEN Raise("ValueError", 0, <<"Invalid isoformat string">>)
            ELSE Return(Append(F[i-1].records,
                     [latitude  |-> lat,
                      longitude |-> lon,
                      station   |-> None,
                      parameter |-> param,
                      value     |-> values[i],
                      timestamp |-> fromisoformat(timestamps[i]),
                      source    |-> <<"open-meteo">>]))
    IN F[n]

\* upstream: [status |-> "ok", json |-> data] or [status |-> "error"]
fetch_open_meteo(payload, upstream) ==
    IF upstream.status # "ok"
    THEN Raise("HTTPError", 0, <<"upstream request failed">>)
    ELSE
    LET data       == upstream.json
        lat        == Get(payload, "latitude", None)
        lon        == Get(payload, "longitude", None)
        timestamps == OmSeries(data, <<"time">>)
        params     == Split(OmHourlyParam(payload), ",")
        F[k \in 0..Len(params)] ==
            IF k = 0 THEN Return(<<>>)
            ELSE IF ~F[k-1].ok THEN F[k-1]
            ELSE LET one == OmZipLoop(lat, lon, params[k], timestamps,
                                      OmSeries(data, params[k]))
                 IN IF one.ok THEN Return(F[k-1].records \o one.records) ELSE one
    IN F[Len(params)]

----------------------------------------------------------------------------
(* The weather-marine adapter on its own: inputs drawn at Init, one call *)

WaveHeight == <<"wave_height">>
SeaTemp    == <<"sea_surface_temperature">>
TimeKey    == <<"time">>

OmHourlyChoices ==
    { <<>>, <<WaveHeight>>, <<SeaTemp, WaveHeight>>, <<WaveHeight, WaveHeight>> }

OmPayloads ==
    { [latitude |-> lat, longitude |-> "78.96"] : lat \in {"20.59", None} }
    \cup { [latitude |-> lat, longitude |-> "78.96", hourly |-> h] :
              lat \in {"20.59", None}, h \in OmHourlyChoices }

OmTimeChoices  ==
    SeqsUpTo({"2025-01-01T00:00", "2025-01-01T01:00", "yesterday"}, MaxSeries)
OmValueChoices == SeqsUpTo({None, "1.5"}, MaxSeries)
OmSeaChoices   == { <<None, "0.8">> }

\* the "hourly" object of the upstream JSON: any of its keys may be missing
OmHourlyObjects ==
    { t @@ w @@ s :
        t \in {<<>>} \cup { (TimeKey :> ts) : ts \in OmTimeChoices },
        w \in {<<>>} \cup { (WaveHeight :> vs) : vs \in OmValueChoices },
        s \in {<<>>} \cup { (SeaTemp :> vs) : vs \in OmSeaChoices } }

OmUpstreams ==
    { [status |-> "error"], [status |-> "ok", json |-> <<>>] }
    \cup { [status |-> "ok", json |-> [hourly |-> h]] : h \in OmHourlyObjects }

InitMeteo ==
    /\ omIn \in [payload : OmPayloads, upstream : OmUpstreams]
    /\ omOut = [done |-> FALSE]
    /\ IdleIngest
    /\ IdleNoaa
    /\ IdleFish
    /\ IdleWorms
    /\ IdleSplit
    /\ IdleScrape

OmCall ==
    /\ ~omOut.done
    /\ omOut' = [done |-> TRUE, result |-> fetch_open_meteo(omIn.payload, omIn.upstream)]
    /\ UNCHANGED <<omIn, notMeteo>>

NextMeteo == OmCall

SpecMeteo == InitMeteo /\ [][NextMeteo]_vars

\* what the caller asked for, and what the upstream sent for it
OmRequested == Get(omIn.payload, "hourly", DefaultHourly)
OmTimes     == OmSeries(omIn.upstream.json, TimeKey)
OmValues(p) == OmSeries(omIn.upstream.json, p)

\* the positions of the timestamp series that carry a non-null value of p
OmPositions(p) ==
    LET all == [i \in 1..Len(OmTimes) |-> i]
        Live(i) == i <= Len(OmValues(p)) /\ OmValues(p)[i] # None
    IN SelectSeq(all, Live)

OmExpected(p) ==
    [j \in 1..Len(OmPositions(p)) |->
        [parameter |-> p,
         value     |-> OmValues(p)[OmPositions(p)[j]],
         timestamp |-> fromisoformat(OmTimes[OmPositions(p)[j]])]]

OmEmitted ==
    [i \in 1..Len(omOut.result.records) |->
        [parameter |-> omOut.result.records[i].parameter,
         value     |-> omOut.result.records[i].value,
         timestamp |-> omOut.result.records[i].timestamp]]

\* C7: every emitted record carries the input latitude and longitude and a
\* non-null value, and the records are, parameter by parameter in request
\* order, one per timestamp position whose value is non-null; a call fails
\* only on a failed upstream call or an unreadable timestamp at such a
\* position, never on a null.
C7_OpenMeteoRecords ==
    omOut.done =>
        IF omOut.result.ok
        THEN /\ \A i \in 1..Len(omOut.result.records) :
                  /\ omOut.result.records[i].latitude = omIn.payload.latitude
                  /\ omOut.result.records[i].longitude = omIn.payload.longitude
                  /\ omOut.result.records[i].value # None
             /\ OmEmitted =
                  Concat([k \in 1..Len(OmRequested) |-> OmExpected(OmRequested[k])])
        ELSE \/ omIn.upstream.status # "ok"
             \/ \E k \in 1..Len(OmRequested) :
                  \E j \in 1..Len(OmPositions(OmRequested[k])) :
                      ~IsIsoFormat(OmTimes[OmPositions(OmRequested[k])[j]])

\* a successful call that emitted records and skipped a null position
C7_Witness ==
    /\ omOut.done
    /\ omOut.result.ok
    /\ Len(omOut.result.records) >= 2
    /\ \E k \in 1..Len(OmRequested) :
          \E i \in 1..Min(Len(OmTimes), Len(OmValues(OmRequested[k]))) :
              OmValues(OmRequested[k])[i] = None

----------------------------------------------------------------------------
(* providers.py: fetch_noaa *)

VALID_PRODUCTS ==
    { "water_level", "water_temperature", "air_temperature", "wind", "air_pressure",
      "visibility", "humidity", "conductivity", "salinity", "currents", "predictions",
      "hourly_height", "high_low", "monthly_mean", "daily_max_min", "six_minute" }

NoaaStation(payload) == Get(payload, "station", None)
NoaaProduct(payload) == Get(payload, "product", "water_temperature")

\* `not station`: None and the empty string are falsy
Falsy(x) == x \in {None, ""}

\* the two checks with the product check dropped
NoaaValidateStationOnly(payload) ==
    IF Falsy(NoaaStation(payload))
    THEN Raise("HTTPException", 400, <<"Missing 'station' in payload">>)
    ELSE Return(<<>>)

\* lines 82-92: the two checks made before any request is built
NoaaValidate(payload) ==
    IF Falsy(NoaaStation(payload))
    THEN Raise("HTTPException", 400, <<"Missing 'station' in payload">>)
    ELSE IF NoaaProduct(payload) \notin VALID_PRODUCTS
    THEN Raise("HTTPException", 400, <<"Unsupported NOAA product: ", NoaaProduct(payload)>>)
    ELSE Return(<<>>)

NoaaDateKeys == {"date", "range", "begin_date", "end_date"}

\* the query of the data call: the fixed keys and the date keys the payload has
NoaaParams(payload) ==
    [product   |-> NoaaProduct(payload),
     station   |-> NoaaStation(payload),
     units     |-> "metric",
     time_zone |-> "gmt",
     format    |-> "json"]
    @@ [k \in (DOMAIN payload) \cap NoaaDateKeys |-> payload[k]]

NoaaDataCall(payload) == [url |-> "datagetter", params |-> NoaaParams(payload)]
NoaaMetaCall(payload) == [url |-> "metadata.json", station |-> NoaaStation(payload)]

\* lines 108-113: the outcome of the data call
NoaaAfterData(reply) ==
    IF reply.status # "ok"
    THEN Raise("HTTPError", 0, <<"upstream request failed">>)
    ELSE IF "data" \notin DOMAIN reply.json \/ reply.json.data = <<>>
    THEN Raise("HTTPException", 404, <<"No data found from NOAA">>)
    ELSE Return(<<>>)

\* data.get("metadata", {})
NoaaInlineMeta(reply) == Get(reply.json, "metadata", <<>>)

\* lines 118-125: the best-effort lookup; any failure leaves meta as it was
NoaaLookupMeta(meta, reply) ==
    IF reply.status # "ok" THEN meta
    ELSE LET stations == Get(reply.json, "stations", << <<>> >>)
         IN IF stations = <<>> THEN meta
            ELSE [lat |-> Get(stations[1], "lat", None),
                  lon |-> Get(stations[1], "lng", None)] @@ meta

\* lines 129-133: the timestamp of one data point
NoaaCanParse(t) ==
    IsIsoFormat(ReplaceSpaceT(t)) \/ IsStrptimeFormat(ReplaceSpaceT(t))

NoaaParse(t) ==
    IF IsIsoFormat(ReplaceSpaceT(t)) THEN fromisoformat(ReplaceSpaceT(t))
    ELSE strptime(ReplaceSpaceT(t))

\* lines 127-145: one record per data point, or the first failure
NoaaRecords(payload, meta, items) ==
    LET F[i \in 0..Len(items)] ==
            IF i = 0 THEN Return(<<>>)
            ELSE IF ~F[i-1].ok THEN F[i-1]
            ELSE IF ~NoaaCanParse(items[i].t)
                 THEN Raise("ValueError", 0, <<"time data does not match format">>)
            ELSE IF ~CanFloat(items[i].v)
                 THEN Raise("ValueError", 0, <<"could not convert string to float">>)
            ELSE Return(Append(F[i-1].records,
                     [latitude  |-> Get(meta, "lat", None),
                      longitude |-> Get(meta, "lon", None),
                      station   |-> NoaaStation(payload),
                      parameter |-> NoaaProduct(payload),
                      value     |-> float(items[i].v),
                      timestamp |-> NoaaParse(items[i].t),
                      source    |-> <<"NOAA">>]))
    IN F[Len(items)]

\* the whole call; upstream: [data |-> reply, meta |-> reply]
fetch_noaa(payload, upstream) ==
    IF ~NoaaValidate(payload).ok THEN NoaaValidate(payload)
    ELSE IF ~NoaaAfterData(upstream.data).ok THEN NoaaAfterData(upstream.data)
    ELSE LET inline == NoaaInlineMeta(upstream.data)
             meta   == IF inline = <<>> THEN NoaaLookupMeta(inline, upstream.meta)
                       ELSE inline
         IN NoaaRecords(payload, meta, upstream.data.json.data)

----------------------------------------------------------------------------
(* The tide-station adapter step by step, with the calls it issues *)

NoaaPayloads ==
    { s @@ p @@ d :
        s \in {<<>>} \cup { [station |-> x] : x \in {"", "8723214"} },
        p \in {<<>>} \cup { [product |-> x] : x \in {"salinity", "bogus"} },
        d \in {<<>>, [begin_date |-> "20250101"]} }

NoaaItems ==
    [t : {"2025-01-01 01:00", "2025-1-1T2:0:0", "yesterday"}, v : {"'12.5'", "''"}]

NoaaDataJsons ==
    { <<>>, [data |-> <<>>] }
    \cup { [data |-> items] @@ m :
             items \in SeqsUpTo(NoaaItems, MaxSeries) \ {<<>>},
             m \in { <<>>, [metadata |-> <<>>],
                     [metadata |-> [lat |-> "25.73", lon |-> "-80.16"]] } }

NoaaDataReplies ==
    { [status |-> "error"] } \cup { [status |-> "ok", json |-> j] : j \in NoaaDataJsons }

NoaaMetaReplies ==
    { [status |-> "error"],
      [status |-> "ok", json |-> [stations |-> <<>>]],
      [status |-> "ok", json |-> [stations |-> << [lat |-> "25.7", lng |-> "-80.1"] >>]] }

NoaaUpstreams == [data : NoaaDataReplies, meta : NoaaMetaReplies]

InitNoaa ==
    /\ noaaIn \in [payload : NoaaPayloads, upstream : NoaaUpstreams]
    /\ noaaPc = "validate"
    /\ noaaCalls = <<>>
    /\ noaaMeta = <<>>
    /\ noaaOut = [done |-> FALSE]
    /\ IdleIngest
    /\ IdleMeteo
    /\ IdleFish
    /\ IdleWorms
    /\ IdleSplit
    /\ IdleScrape

NoaaFinish(result) ==
    /\ noaaOut' = [done |-> TRUE, result |-> result]
    /\ noaaPc' = IF result.ok THEN "returned" ELSE "raised"

\* lines 79-92
NoaaCheckPayload ==
    /\ noaaPc = "validate"
    /\ IF NoaaValidate(noaaIn.payload).ok
       THEN noaaPc' = "get_data" /\ UNCHANGED noaaOut
       ELSE NoaaFinish(NoaaValidate(noaaIn.payload))
    /\ UNCHANGED <<noaaIn, noaaCalls, noaaMeta, notNoaa>>

\* lines 94-116
NoaaGetData ==
    /\ noaaPc = "get_data"
    /\ noaaCalls' = Append(noaaCalls, NoaaDataCall(noaaIn.payload))
    /\ IF NoaaAfterData(noaaIn.upstream.data).ok
       THEN /\ noaaMeta' = NoaaInlineMeta(noaaIn.upstream.data)
            /\ noaaPc' = IF noaaMeta' = <<>> THEN "get_meta" ELSE "build"
            /\ UNCHANGED noaaOut
       ELSE /\ NoaaFinish(NoaaAfterData(noaaIn.upstream.data))
            /\ UNCHANGED noaaMeta
    /\ UNCHANGED <<noaaIn, notNoaa>>

\* lines 117-125
NoaaGetMeta ==
    /\ noaaPc = "get_meta"
    /\ noaaCalls' = Append(noaaCalls, NoaaMetaCall(noaaIn.payload))
    /\ noaaMeta' = NoaaLookupMeta(noaaMeta, noaaIn.upstream.meta)
    /\ noaaPc' = "build"
    /\ UNCHANGED <<noaaIn, noaaOut, notNoaa>>

\* lines 127-145
NoaaBuild ==
    /\ noaaPc = "build"
    /\ NoaaFinish(NoaaRecords(noaaIn.payload, noaaMeta, noaaIn.upstream.data.json.data))
    /\ UNCHANGED <<noaaIn, noaaCalls, noaaMeta, notNoaa>>

NextNoaa == NoaaCheckPayload \/ NoaaGetData \/ NoaaGetMeta \/ NoaaBuild

SpecNoaa == InitNoaa /\ [][NextNoaa]_vars

NoaaBadPayload ==
    \/ Falsy(Get(noaaIn.payload, "station", None))
    \/ Get(noaaIn.payload, "product", "water_temperature") \notin VALID_PRODUCTS

\* C6: a payload without a station, or with a product outside the enumerated
\* set, makes the tide-station adapter fail with status 400, and no external
\* call, data or metadata, is ever issued for it.
C6_NoaaRejectsBeforeCalls ==
    NoaaBadPayload =>
        /\ noaaCalls = <<>>
        /\ noaaPc \in {"validate", "raised"}
        /\ noaaOut.done =>
              /\ ~noaaOut.result.ok
              /\ noaaOut.result.type = "HTTPException"
              /\ noaaOut.result.status = 400

\* a station is given, the product is not an enumerated one, and the call has failed
C6_Witness ==
    /\ ~Falsy(Get(noaaIn.payload, "station", None))
    /\ Get(noaaIn.payload, "product", "water_temperature") = "bogus"
    /\ noaaPc = "raised"
    /\ noaaOut.done

----------------------------------------------------------------------------
(* providers.py: fetch_fisheries *)

FishLimit == 100

\* datetime.datetime.now(): the reading of the clock, the same token everywhere
Now == "2026-01-01T00:00:00"

FishStatFields ==
    { "total_fish_production_lakh_tonnes", "marine_fish_production_lakh_tonnes",
      "inland_fish_production_lakh_tonnes", "total_exports_crores" }

\* the model's `year: str` accepts a JSON string and nothing else
IsStr(x) == x \in {"'2020-21'", "'2021-22'", "N/A", "'abc'", "'12.5'", "'7'", "''"}

\* lines 322-334: whether FisheriesData(...) can be built from the item
FishCoerces(item) ==
    /\ IsStr(Get(item, "financial_year", "N/A"))
    /\ \A f \in FishStatFields : CanFloat(Get(item, f, "0"))

FishRecord(item) ==
    [year |-> Get(item, "financial_year", "N/A"),
     total_fish_production_lakh_tonnes |->
         float(Get(item, "total_fish_production_lakh_tonnes", "0")),
     marine_fish_production_lakh_tonnes |->
         float(Get(item, "marine_fish_production_lakh_tonnes", "0")),
     inland_fish_production_lakh_tonnes |->
         float(Get(item, "inland_fish_production_lakh_tonnes", "0")),
     total_exports_crores |-> float(Get(item, "total_exports_crores", "0")),
     ingestion_timestamp |-> Now,
     source |-> <<"data.gov.in">>]

\* the loop over a page with `break` in place of `continue`
RECURSIVE FishPageRecordsStopAtBad(_, _)
FishPageRecordsStopAtBad(all_records, items) ==
    IF items = <<>> THEN all_records
    ELSE IF FishCoerces(Head(items))
    THEN FishPageRecordsStopAtBad(Append(all_records, FishRecord(Head(items))), Tail(items))
    ELSE all_records

\* lines 321-334: the loop over one page, appending to all_records
RECURSIVE FishPageRecords(_, _)
FishPageRecords(all_records, items) ==
    IF items = <<>> THEN all_records
    ELSE IF FishCoerces(Head(items))
    THEN FishPageRecords(Append(all_records, FishRecord(Head(items))), Tail(items))
    ELSE FishPageRecords(all_records, Tail(items))

\* line 318: "records" not in data or not data["records"]
FishNoRecords(data) == "records" \notin DOMAIN data \/ data.records = <<>>

\* the loop without its increment
FishKeepOffset(offset) == offset

\* line 336
FishNextOffset(offset) == offset + FishLimit

\* The upstream: pages |-> the non-empty pages it holds, end |-> what it answers
\* beyond them: an empty list, a body without "records", an HTTP error, or
\* ("endless") a non-empty page for ever.  The page served is the one at `offset`.
FishEndlessPage == << [financial_year |-> "'2021-22'"] >>

FishReply(up, offset) ==
    LET n == (offset \div FishLimit) + 1
    IN IF offset % FishLimit = 0 /\ n <= Len(up.pages)
       THEN [status |-> "ok", json |-> [records |-> up.pages[n]]]
       ELSE CASE up.end = "empty"   -> [status |-> "ok", json |-> [records |-> <<>>]]
              [] up.end = "missing" -> [status |-> "ok", json |-> <<>>]
              [] up.end = "error"   -> [status |-> "error"]
              [] up.end = "endless" -> [status |-> "ok", json |-> [records |-> FishEndlessPage]]

----------------------------------------------------------------------------
(* The government-statistics adapter step by step *)

MaxItems == 3               \* most items the upstream holds, over all its pages
MaxCalls == MaxItems + 2    \* calls followed against an upstream that never ends

FishItems ==
    { [financial_year |-> "'2020-21'", total_fish_production_lakh_tonnes |-> "'12.5'",
       marine_fish_production_lakh_tonnes |-> "7"],
      [financial_year |-> "'2021-22'"],
      [total_exports_crores |-> "'abc'"],
      [financial_year |-> "2021", inland_fish_production_lakh_tonnes |-> "'7'"],
      [financial_year |-> "'2021-22'", marine_fish_production_lakh_tonnes |-> None] }

\* `flat` cut into pages after every position in `cuts` (and at its end)
RECURSIVE CutFrom(_, _, _, _)
CutFrom(flat, cuts, i, page) ==
    IF i > Len(flat) THEN <<>>
    ELSE IF i \in cuts \/ i = Len(flat)
    THEN <<Append(page, flat[i])>> \o CutFrom(flat, cuts, i + 1, <<>>)
    ELSE CutFrom(flat, cuts, i + 1, Append(page, flat[i]))

\* every way of holding at most MaxItems items in non-empty pages
FishPageLists ==
    UNION { { CutFrom(flat, cuts, 1, <<>>) : cuts \in SUBSET (1..(Len(flat) - 1)) } :
            flat \in SeqsUpTo(FishItems, MaxItems) }

FishUpstreams ==
    [pages : FishPageLists, end : {"empty", "missing", "error", "endless"}]

InitFish ==
    /\ fishIn \in FishUpstreams
    /\ fishPc = "loop"
    /\ fishOffset = 0
    /\ fishAll = <<>>
    /\ fishCalls = <<>>
    /\ IdleIngest
    /\ IdleMeteo
    /\ IdleNoaa
    /\ IdleWorms
    /\ IdleSplit
    /\ IdleScrape

\* lines 312-336: one pass of the while loop
FishIteration ==
    /\ fishPc = "loop"
    /\ Len(fishCalls) < MaxCalls
    /\ fishCalls' = Append(fishCalls, fishOffset)
    /\ LET reply == FishReply(fishIn, fishOffset)
       IN IF reply.status # "ok"
          THEN fishPc' = "raised" /\ UNCHANGED <<fishAll, fishOffset>>
          ELSE IF FishNoRecords(reply.json)
          THEN fishPc' = "returned" /\ UNCHANGED <<fishAll, fishOffset>>
          ELSE /\ fishAll' = FishPageRecords(fishAll, reply.json.records)
               /\ fishOffset' = FishNextOffset(fishOffset)
               /\ fishPc' = "loop"
    /\ UNCHANGED <<fishIn, notFish>>

NextFish == FishIteration

SpecFish == InitFish /\ [][NextFish]_vars

\* the loop is the running program: it takes its next pass
SpecFishFair == SpecFish /\ WF_vars(FishIteration)

\* the pages served so far, one per call
FishServed == [i \in 1..Len(fishCalls) |-> FishReply(fishIn, fishCalls[i])]

FishIsPage(reply) == reply.status = "ok" /\ ~FishNoRecords(reply.json)
FishIsEnd(reply)  == reply.status = "ok" /\ FishNoRecords(reply.json)

\* one record per item of the page that coerces, in the page's order
FishKept(items) ==
    LET Good(item) == FishCoerces(item)
        kept == SelectSeq(items, Good)
    IN [j \in 1..Len(kept) |-> FishRecord(kept[j])]

\* C5: when the fetch returns, having met its first empty-or-missing records
\* list at page k+1, the result is the concatenation over pages 1..k, in page
\* order, of one record per item that coerces, in within-page order.
C5_FisheriesResult ==
    fishPc = "returned" =>
        LET k == Len(fishCalls) - 1
        IN /\ \A i \in 1..k : FishIsPage(FishServed[i])
           /\ FishIsEnd(FishServed[k + 1])
           /\ fishAll = Concat([i \in 1..k |-> FishKept(FishServed[i].json.records)])

\* a fetch that returned after two pages whose first page has an item that
\* does not coerce followed by one that does
C5_Witness ==
    /\ fishPc = "returned"
    /\ Len(fishCalls) = 3
    /\ Len(fishIn.pages[1]) >= 2
    /\ ~FishCoerces(fishIn.pages[1][1])
    /\ FishCoerces(fishIn.pages[1][2])
    /\ Len(fishAll) >= 2

FishEventuallyEmpty == fishIn.end \in {"empty", "missing"}

\* C10: the calls carry the offsets 0, 100, 200, ... in that order; every call
\* but the last returned a non-empty records list; the fetch has returned
\* exactly when its last call returned an empty or missing records list; and
\* against an upstream that eventually returns such a page it eventually
\* returns.
C10_FisheriesPagination ==
    /\ [](/\ \A i \in 1..Len(fishCalls) : fishCalls[i] = (i - 1) * FishLimit
          /\ \A i \in 1..(Len(fishCalls) - 1) : FishIsPage(FishServed[i])
          /\ fishPc = "returned" <=>
                (fishCalls # <<>> /\ FishIsEnd(FishServed[Len(fishCalls)])))
    /\ (FishEventuallyEmpty ~> fishPc = "returned")

\* the fetch has returned after three calls
C10_Witness ==
    /\ fishPc = "returned"
    /\ fishCalls = <<0, 100, 200>>

----------------------------------------------------------------------------
(* providers.py: fetch_worms *)

WormsEndpoint(payload) == Get(payload, "endpoint", "AphiaRecordsByName")
WormsLimit(payload)    == Get(payload, "limit", 100)

\* data[:limit] for an integer limit: a negative limit counts from the end
SliceTo(data, limit) ==
    IF limit >= 0 THEN SubSeq(data, 1, Min(limit, Len(data)))
    ELSE SubSeq(data, 1, Max(0, Len(data) + limit))

\* lines 225-229 without the slice
WormsItemsUncut(json, limit) ==
    IF json.type = "dict" THEN <<json.value>> ELSE json.value

\* lines 225-229: a dict becomes a one-element list, then the limit is applied
WormsItems(json, limit) ==
    SliceTo(IF json.type = "dict" THEN <<json.value>> ELSE json.value, limit)

WormsSource(payload) == <<"worms/", WormsEndpoint(payload)>>

\* lines 233-248
WormsRecord(payload, item) ==
    [aphiaID        |-> Get(item, "AphiaID", None),
     scientificName |-> Get(item, "scientificname", None),
     rank           |-> Get(item, "rank", None),
     status         |-> Get(item, "status", None),
     valid_name     |-> Get(item, "valid_name", None),
     valid_AphiaID  |-> Get(item, "valid_AphiaID", None),
     kingdom        |-> Get(item, "kingdom", None),
     phylum         |-> Get(item, "phylum", None),
     class          |-> Get(item, "class", None),
     order          |-> Get(item, "order", None),
     family         |-> Get(item, "family", None),
     genus          |-> Get(item, "genus", None),
     timestamp      |-> Now,
     source         |-> WormsSource(payload)]

\* upstream: [status |-> "error"] or [status |-> "ok", json |-> [type, value]],
\* type one of "int", "dict", "list", "null"
fetch_worms(payload, upstream) ==
    LET params == Get(payload, "params", <<>>)
    IN IF "scientificname" \notin DOMAIN params /\ "AphiaID" \notin DOMAIN params
       THEN Raise("ValueError", 0,
                  <<"WoRMS requires either 'scientificname' or 'AphiaID' in params">>)
       ELSE IF upstream.status # "ok"
       THEN Raise("HTTPError", 0, <<"upstream request failed">>)
       ELSE IF upstream.json.type = "int"
       THEN Return(<< [aphiaID   |-> upstream.json.value,
                       timestamp |-> Now,
                       source    |-> WormsSource(payload)] >>)
       ELSE IF upstream.json.type \notin {"dict", "list"}
       THEN Raise("TypeError", 0, <<"object is not subscriptable">>)
       ELSE LET data == WormsItems(upstream.json, WormsLimit(payload))
            IN Return([i \in 1..Len(data) |-> WormsRecord(payload, data[i])])

----------------------------------------------------------------------------
(* The taxonomic-registry adapter on its own: inputs drawn at Init, one call *)

MaxLimit == 2       \* largest `limit` a payload asks for; lists run one longer

WormsPayloads ==
    { e @@ p @@ l :
        e \in { <<>>, [endpoint |-> "AphiaIDByName"] },
        p \in { <<>>, [params |-> <<>>],
                [params |-> [scientificname |-> "Sardinella"]],
                [params |-> [AphiaID |-> "126421"]] },
        l \in { <<>> } \cup { [limit |-> n] : n \in 0..MaxLimit } }

WormsUpstreamItems ==
    { [AphiaID |-> "126421", scientificname |-> "'Sardinella'", rank |-> "'Genus'"],
      [AphiaID |-> "126422", status |-> "'accepted'"],
      <<>> }

WormsJsons ==
    { [type |-> "null", value |-> None], [type |-> "int", value |-> "42"] }
    \cup { [type |-> "dict", value |-> item] : item \in WormsUpstreamItems }
    \cup { [type |-> "list", value |-> items] :
             items \in SeqsUpTo(WormsUpstreamItems, MaxLimit + 1) }

WormsUpstreams ==
    { [status |-> "error"] } \cup { [status |-> "ok", json |-> j] : j \in WormsJsons }

InitWorms ==
    /\ woIn \in [payload : WormsPayloads, upstream : WormsUpstreams]
    /\ woOut = [done |-> FALSE]
    /\ IdleIngest
    /\ IdleMeteo
    /\ IdleNoaa
    /\ IdleFish
    /\ IdleSplit
    /\ IdleScrape

WormsCall ==
    /\ ~woOut.done
    /\ woOut' = [done |-> TRUE, result |-> fetch_worms(woIn.payload, woIn.upstream)]
    /\ UNCHANGED <<woIn, notWorms>>

NextWorms == WormsCall

SpecWorms == InitWorms /\ [][NextWorms]_vars

\* the upstream's items as the claim reads them: the list, or the one object
WormsUpstreamList ==
    IF woIn.upstream.json.type = "dict" THEN <<woIn.upstream.json.value>>
    ELSE woIn.upstream.json.value

\* C8: a bare integer n yields exactly one record whose aphiaID is n; for an
\* object (read as a one-element list) or a list, the output has
\* min(limit, number of items) records, record i made from item i.
C8_WormsShapes ==
    (woOut.done /\ woOut.result.ok) =>
        LET out   == woOut.result.records
            limit == Get(woIn.payload, "limit", 100)
        IN IF woIn.upstream.json.type = "int"
           THEN Len(out) = 1 /\ out[1].aphiaID = woIn.upstream.json.value
           ELSE /\ woIn.upstream.json.type \in {"dict", "list"}
                /\ Len(out) = Min(limit, Len(WormsUpstreamList))
                /\ \A i \in 1..Len(out) :
                      /\ out[i].aphiaID = Get(WormsUpstreamList[i], "AphiaID", None)
                      /\ out[i].scientificName =
                            Get(WormsUpstreamList[i], "scientificname", None)
                      /\ out[i].status = Get(WormsUpstreamList[i], "status", None)

\* a list longer than the limit was cut to the limit
C8_Witness ==
    /\ woOut.done
    /\ woOut.result.ok
    /\ woIn.upstream.json.type = "list"
    /\ "limit" \in DOMAIN woIn.payload
    /\ Len(woIn.upstream.json.value) > woIn.payload.limit
    /\ Len(woOut.result.records) = woIn.payload.limit
    /\ woIn.payload.limit >= 1

----------------------------------------------------------------------------
(* providers/fetch_cmfri.py: split_sections *)

\* line 8; a token contains a pattern when it is listed here with one
patterns == {"Introduction", "Methodology", "Results", "Discussion", "Conclusion"}

TokensWithPattern ==
    patterns \cup {"1.Introduction", "Results:", "Conclusions"}

\* any(p in line for p in patterns)
IsHeadingLine(line) == \E i \in 1..Len(line) : line[i] \in TokensWithPattern

Whitespace == {" ", "\f"}

\* str.strip() on a token sequence
RECURSIVE LStrip(_)
LStrip(text) ==
    IF text # <<>> /\ Head(text) \in Whitespace THEN LStrip(Tail(text)) ELSE text

RECURSIVE RStrip(_)
RStrip(text) ==
    IF text # <<>> /\ text[Len(text)] \in Whitespace
    THEN RStrip(SubSeq(text, 1, Len(text) - 1)) ELSE text

Strip(text) == RStrip(LStrip(text))

\* `if last:` -- None (written <<>>) and the empty string are both falsy
SplitFlush(sections, last, buffer) ==
    IF last # <<>> THEN (last :> Strip(Join(" ", buffer))) @@ sections ELSE sections

\* lines 12-19: the loop over the lines; st is [sections, last, buffer]
RECURSIVE SplitLoop(_, _)
SplitLoop(lines, st) ==
    IF lines = <<>> THEN st
    ELSE IF IsHeadingLine(Head(lines))
    THEN SplitLoop(Tail(lines),
             [sections |-> SplitFlush(st.sections, st.last, st.buffer),
              last     |-> Strip(Head(lines)),
              buffer   |-> IF st.last # <<>> THEN <<>> ELSE st.buffer])
    ELSE SplitLoop(Tail(lines),
             [sections |-> st.sections,
              last     |-> st.last,
              buffer   |-> Append(st.buffer, Head(lines))])

\* lines 5-24
split_sections(text) ==
    LET st == SplitLoop(Split(text, "\n"),
                        [sections |-> <<>>, last |-> <<>>, buffer |-> <<>>])
    IN SplitFlush(st.sections, st.last, st.buffer)

----------------------------------------------------------------------------
(* The section splitter on its own: a text drawn at Init, one call *)

MaxLines == 3       \* most lines of a text

SplitLines ==
    { <<"Introduction">>, <<" ", "Results:">>, <<"foo">>, <<"bar", " ", "baz">>, <<>> }

SplitTexts == { Join("\n", ls) : ls \in SeqsUpTo(SplitLines, MaxLines) }

InitSplit ==
    /\ spIn \in SplitTexts
    /\ spOut = [done |-> FALSE]
    /\ IdleIngest
    /\ IdleMeteo
    /\ IdleNoaa
    /\ IdleFish
    /\ IdleWorms
    /\ IdleScrape

SplitCall ==
    /\ ~spOut.done
    /\ spOut' = [done |-> TRUE, sections |-> split_sections(spIn)]
    /\ UNCHANGED <<spIn, notSplit>>

NextSplit == SplitCall

SpecSplit == InitSplit /\ [][NextSplit]_vars

SpLines == Split(spIn, "\n")

SpHeadings == { i \in 1..Len(SpLines) : IsHeadingLine(SpLines[i]) }

\* the end of the section that starts at heading i: the next heading, or past the end
SpNext(i) ==
    IF \E j \in SpHeadings : j > i
    THEN CHOOSE j \in SpHeadings : j > i /\ \A k \in SpHeadings : k > i => j <= k
    ELSE Len(SpLines) + 1

\* the non-heading lines that follow heading i up to the next heading, space-joined
SpBody(i) == Join(" ", SubSeq(SpLines, i + 1, SpNext(i) - 1))

\* C9: the section map has one key per heading line, and each heading's
\* section is the space-joined lines between it and the next heading (read
\* up to surrounding whitespace, and for a repeated heading text the last
\* occurrence); lines before the first heading are in no section; no heading,
\* no section.
C9_SectionsFollowHeadings ==
    spOut.done =>
        /\ DOMAIN spOut.sections = { Strip(SpLines[i]) : i \in SpHeadings }
        /\ \A i \in SpHeadings :
              (\A j \in SpHeadings : j > i => Strip(SpLines[j]) # Strip(SpLines[i]))
                  => spOut.sections[Strip(SpLines[i])] = Strip(SpBody(i))

----------------------------------------------------------------------------
(* providers.py: fetch_obis *)

ObisEndpoint(payload) == Get(payload, "endpoint", "occurrence")

\* lines 170-187
ObisRecord(payload, item) ==
    [latitude      |-> Get(item, "decimalLatitude", None),
     longitude     |-> Get(item, "decimalLongitude", None),
     species       |-> Get(item, "scientificName", None),
     taxonRank     |-> Get(item, "taxonRank", None),
     family        |-> Get(item, "family", None),
     order         |-> Get(item, "order", None),
     class         |-> Get(item, "class", None),
     basisOfRecord |-> Get(item, "basisOfRecord", None),
     depth         |-> Get(item, "depth", None),
     eventDate     |-> Get(item, "eventDate", None),
     timestamp     |-> Now,
     source        |-> <<"obis/", ObisEndpoint(payload)>>]

\* upstream: [status |-> "error"] or [status |-> "ok", json |-> data]
fetch_obis(payload, upstream) ==
    IF upstream.status # "ok"
    THEN Raise("HTTPError", 0, <<"upstream request failed">>)
    ELSE LET items == Get(upstream.json, "results", Get(upstream.json, "data", <<>>))
         IN Return([i \in 1..Len(items) |-> ObisRecord(payload, items[i])])

----------------------------------------------------------------------------
(* providers.py: fetch_bold *)

BoldEndpoint(payload) == Get(payload, "endpoint", "specimen")

\* line 266: int(params.pop("limit", 20)), the limit being a JSON integer
BoldLimit(payload) == Get(Get(payload, "params", <<>>), "limit", 20)

\* lines 273-279; a mapping is a sequence of [key, isdict, val] in its own order
RECURSIVE BoldFromMapping(_)
BoldFromMapping(entries) ==
    IF entries = <<>> THEN <<>>
    ELSE IF Head(entries).isdict
    THEN << ("id" :> Head(entries).key) @@ Head(entries).val >>
             \o BoldFromMapping(Tail(entries))
    ELSE BoldFromMapping(Tail(entries))

BoldCollect(json) ==
    IF json.type = "dict" THEN BoldFromMapping(json.value)
    ELSE IF json.type = "list" THEN json.value
    ELSE <<>>

\* lines 284-293
BoldRecord(payload, item) ==
    [processid         |-> Get(item, "processid", None),
     species_name      |-> Get(item, "species_name", None),
     lat               |-> Get(item, "lat", None),
     lon               |-> Get(item, "lon", None),
     marker            |-> Get(item, "marker", None),
     genbank_accession |-> Get(item, "genbank_accession", None),
     timestamp         |-> Now,
     source            |-> <<"bold/", BoldEndpoint(payload)>>]

\* upstream: [status |-> "error"] or [status |-> "ok", json |-> [type, value]]
fetch_bold(payload, upstream) ==
    IF upstream.status # "ok"
    THEN Raise("HTTPError", 0, <<"upstream request failed">>)
    ELSE LET records == SliceTo(BoldCollect(upstream.json), BoldLimit(payload))
         IN Return([i \in 1..Len(records) |-> BoldRecord(payload, records[i])])

\* the whole fetch_fisheries, as one value: the passes of the loop from `offset`
\* on (defined for an upstream that ends; against one that never does the
\* function never returns)
RECURSIVE FishLoop(_, _, _)
FishLoop(up, offset, all_records) ==
    LET reply == FishReply(up, offset)
    IN IF reply.status # "ok"
       THEN Raise("HTTPError", 0, <<"upstream request failed">>)
       ELSE IF FishNoRecords(reply.json)
       THEN Return(all_records)
       ELSE FishLoop(up, FishNextOffset(offset),
                     FishPageRecords(all_records, reply.json.records))

fetch_fisheries(payload, upstream) == FishLoop(upstream, 0, <<>>)

----------------------------------------------------------------------------
(* tools/cmfritool.py and providers/fetch_cmfri.py: the PDF report pipeline *)

EPRINTS_BASE   == <<"https:", "/", "/", "eprints.cmfri.org.in", "/">>
EprintsOrigin  == <<"https:", "/", "/", "eprints.cmfri.org.in">>

\* urljoin(EPRINTS_BASE, href): an absolute href stands, a rooted one replaces
\* the path, any other is appended to the base
urljoin(base, href) ==
    IF href # <<>> /\ Head(href) = "https:" THEN href
    ELSE IF href # <<>> /\ Head(href) = "/" THEN EprintsOrigin \o href
    ELSE base \o href

\* href.endswith(".pdf")
EndsWithPdf(href) == href # <<>> /\ href[Len(href)] = ".pdf"

\* "Marine Fish Landings" in text
IsLandingsText(text) == \E i \in 1..Len(text) : text[i] = "Marine Fish Landings"

\* lines 31-35: the first link of the record page that ends in .pdf, if any
RECURSIVE FirstPdf(_)
FirstPdf(hrefs) ==
    IF hrefs = <<>> THEN <<>>
    ELSE IF EndsWithPdf(Head(hrefs)) THEN <<urljoin(EPRINTS_BASE, Head(hrefs))>>
    ELSE FirstPdf(Tail(hrefs))

\* lines 19-38: the loop over the listing's links;
\* st is [ok, pdf_links, count, fetched]
RECURSIVE ScrapeLoop(_, _, _, _)
ScrapeLoop(links, pages, limit, st) ==
    IF links = <<>> THEN st
    ELSE LET link == Head(links)
             url  == urljoin(EPRINTS_BASE, link.href)
         IN IF ~IsLandingsText(link.text)
            THEN IF st.count >= limit THEN st
                 ELSE ScrapeLoop(Tail(links), pages, limit, st)
            ELSE IF pages[url].status # "ok"
            THEN [st EXCEPT !.ok = FALSE, !.fetched = Append(@, url)]
            ELSE LET found == FirstPdf(pages[url].links)
                     nx == [ok        |-> TRUE,
                            pdf_links |-> st.pdf_links \o found,
                            count     |-> st.count + Len(found),
                            fetched   |-> Append(st.fetched, url)]
                 IN IF nx.count >= limit THEN nx
                    ELSE ScrapeLoop(Tail(links), pages, limit, nx)

\* upstream: listing |-> the year's listing page, pages |-> the record pages by URL
scrape_technical_reports(year, limit, upstream) ==
    IF upstream.listing.status # "ok"
    THEN [ok |-> FALSE, pdf_links |-> <<>>, count |-> 0, fetched |-> <<>>]
    ELSE ScrapeLoop(upstream.listing.links, upstream.pages, limit,
                    [ok |-> TRUE, pdf_links |-> <<>>, count |-> 0, fetched |-> <<>>])

\* url.split("/")[-1]
LastSegment(url) == LET parts == Split(url, "/") IN parts[Len(parts)]

\* text.count("\f")
CountFormFeeds(text) == Cardinality({ i \in 1..Len(text) : text[i] = "\f" })

\* fetch_cmfri lines 43-60: the record of one downloaded report; doc is what the
\* download and the extraction libraries gave: [text, tables].  len(text) is
\* counted in tokens.
CmfriRecord(year, pdf_url, doc) ==
    [provider    |-> "cmfri_pdf",
     year        |-> year,
     report_name |-> LastSegment(<<"cmfri_reports", "/">> \o LastSegment(pdf_url)),
     source_url  |-> pdf_url,
     metadata    |-> [pages |-> CountFormFeeds(doc.text) + 1,
                      length_chars |-> Len(doc.text)],
     sections    |-> split_sections(doc.text),
     tables      |-> doc.tables]

\* upstream: listing, pages, docs |-> by document URL, [status, text, tables]
fetch_cmfri(payload, upstream) ==
    LET year    == Get(payload, "year", "2023")
        limit   == Get(payload, "limit", 1)
        scraped == scrape_technical_reports(year, limit, upstream)
        urls    == scraped.pdf_links
    IN IF ~scraped.ok
       THEN Raise("HTTPError", 0, <<"upstream request failed">>)
       ELSE IF \E i \in 1..Len(urls) : upstream.docs[urls[i]].status # "ok"
       THEN Raise("HTTPError", 0, <<"upstream request failed">>)
       ELSE Return([i \in 1..Len(urls) |->
                        CmfriRecord(year, urls[i], upstream.docs[urls[i]])])

----------------------------------------------------------------------------
(* main.py: the dispatcher *)

\* fetch_csv and fetch_ftp: adapters whose code is not under src/; each returns
\* a list of records or raises, as the upstream decides
fetch_csv(payload, upstream) == upstream
fetch_ftp(payload, upstream) == upstream

\* lines 32-42: the keys of PROVIDERS
RegisteredProviders ==
    {"open-meteo", "noaa", "obis", "worms", "bold", "fisheries", "csv", "ftp", "cmfri"}

\* PROVIDERS[provider](payload)
Adapter(req) ==
    CASE req.provider = "open-meteo" -> fetch_open_meteo(req.payload, req.upstream)
      [] req.provider = "noaa"       -> fetch_noaa(req.payload, req.upstream)
      [] req.provider = "obis"       -> fetch_obis(req.payload, req.upstream)
      [] req.provider = "worms"      -> fetch_worms(req.payload, req.upstream)
      [] req.provider = "bold"       -> fetch_bold(req.payload, req.upstream)
      [] req.provider = "fisheries"  -> fetch_fisheries(req.payload, req.upstream)
      [] req.provider = "csv"        -> fetch_csv(req.payload, req.upstream)
      [] req.provider = "ftp"        -> fetch_ftp(req.payload, req.upstream)
      [] req.provider = "cmfri"      -> fetch_cmfri(req.payload, req.upstream)

StatusText(status) ==
    CASE status = 400 -> "400" [] status = 404 -> "404" [] status = 500 -> "500"

\* str(e): an HTTPException prints as "<status>: <detail>", any other
\* exception as its message
ExcStr(e) ==
    IF e.type = "HTTPException" THEN <<StatusText(e.status), ": ">> \o e.message
    ELSE e.message

Answer(status, detail, records) ==
    [status |-> status, detail |-> detail, records |-> records]

\* the store overwritten by the new records
IngestStoreReplace(store, records) == records

\* line 62: database.extend(records)
IngestStore(store, records) == store \o records

\* an except clause that lets an HTTPException through with its own status
IngestFailureByStatus(e) ==
    IF e.type = "HTTPException" THEN Answer(e.status, e.message, <<>>)
    ELSE Answer(500, <<"Ingestion failed: ">> \o ExcStr(e), <<>>)

\* lines 64-65: except Exception as e
IngestFailure(e) == Answer(500, <<"Ingestion failed: ">> \o ExcStr(e), <<>>)

----------------------------------------------------------------------------
(* The service: ingestion requests and reads of the store *)

MaxStore == 2       \* requests are taken while the store is shorter than this

NoaaGoodData ==
    [status |-> "ok",
     json |-> [data |-> << [t |-> "2025-01-01 01:00", v |-> "'12.5'"] >>,
               metadata |-> [lat |-> "25.73", lon |-> "-80.16"]]]

NoaaMetaDown == [status |-> "error"]

IngestNoaa ==
    [provider : {"noaa"},
     payload  : { <<>>, [station |-> "8723214", product |-> "bogus"],
                  [station |-> "8723214", product |-> "salinity"] },
     upstream : [data : { NoaaGoodData, [status |-> "error"],
                          [status |-> "ok", json |-> [data |-> <<>>]],
                          [status |-> "ok",
                           json |-> [data |-> << [t |-> "yesterday", v |-> "''"] >>]] },
                 meta : {NoaaMetaDown}]]

IngestMeteo ==
    [provider : {"open-meteo"},
     payload  : { [latitude |-> "20.59", longitude |-> "78.96", hourly |-> <<WaveHeight>>] },
     upstream : { [status |-> "error"],
                  [status |-> "ok",
                   json |-> [hourly |->
                       (TimeKey :> <<"2025-01-01T00:00", "2025-01-01T01:00">>)
                       @@ (WaveHeight :> <<None, "1.5">>)]] }]

IngestObis ==
    [provider : {"obis"},
     payload  : { [endpoint |-> "occurrence"] },
     upstream : { [status |-> "error"],
                  [status |-> "ok",
                   json |-> [results |-> << [scientificName |-> "'Sardinella'"] >>]] }]

IngestWorms ==
    [provider : {"worms"},
     payload  : { <<>>, [params |-> [scientificname |-> "Sardinella"], limit |-> 1] },
     upstream : { [status |-> "ok", json |-> [type |-> "int", value |-> "42"]],
                  [status |-> "ok",
                   json |-> [type |-> "list",
                             value |-> << [AphiaID |-> "126421"], [AphiaID |-> "126422"] >>]] }]

IngestBold ==
    [provider : {"bold"},
     payload  : { [params |-> [taxon |-> "Gadus", limit |-> 1]] },
     upstream : { [status |-> "error"],
                  [status |-> "ok",
                   json |-> [type |-> "dict",
                             value |-> << [key |-> "total", isdict |-> FALSE, val |-> "2"],
                                          [key |-> "GBMA001", isdict |-> TRUE,
                                           val |-> [processid |-> "'GBMA001'"]] >>]] }]

IngestFisheries ==
    [provider : {"fisheries"},
     payload  : { <<>> },
     upstream : { [pages |-> << << [financial_year |-> "'2020-21'"],
                                   [total_exports_crores |-> "'abc'"] >> >>,
                   end |-> "empty"],
                  [pages |-> <<>>, end |-> "error"] }]

OpaqueRecord == [source |-> <<"csv">>, timestamp |-> Now, row |-> "1"]

IngestOpaque ==
    [provider : {"csv", "ftp"},
     payload  : { <<>> },
     upstream : { Return(<<OpaqueRecord>>), Raise("OSError", 0, <<"cannot open">>) }]

CmfriRecordUrl == EprintsOrigin \o <<"/", "17001", "/">>
CmfriPdfUrl    == EprintsOrigin \o <<"/", "17001", "/", "1", "/", "landings", ".pdf">>

CmfriSite ==
    [listing |-> [status |-> "ok",
                  links |-> << [href |-> <<"/", "17001", "/">>,
                                text |-> <<"Marine Fish Landings", " in India 2023">>] >>],
     pages |-> (CmfriRecordUrl :>
                   [status |-> "ok",
                    links |-> << <<"/", "17001", "/", "1", "/", "landings", ".pdf">> >>]),
     docs |-> (CmfriPdfUrl :>
                   [status |-> "ok",
                    text |-> <<"Introduction", "\n", "foo", "\f", "\n", "bar">>,
                    tables |-> <<>>])]

CmfriSiteDown ==
    [listing |-> [status |-> "error"], pages |-> <<>>, docs |-> <<>>]

IngestCmfri ==
    [provider : {"cmfri"}, payload : { <<>>, [year |-> "2023", limit |-> 1] },
     upstream : { CmfriSite, CmfriSiteDown }]

IngestUnknown == [provider : {"argo"}, payload : { <<>> }, upstream : { <<>> }]

IngestInputs ==
    IngestNoaa \cup IngestMeteo \cup IngestObis \cup IngestWorms \cup IngestBold
    \cup IngestFisheries \cup IngestOpaque \cup IngestCmfri \cup IngestUnknown

Init ==
    /\ database = <<>>
    /\ request = [kind |-> "none"]
    /\ response = Answer(0, <<>>, <<>>)
    /\ IdleMeteo
    /\ IdleNoaa
    /\ IdleFish
    /\ IdleWorms
    /\ IdleSplit
    /\ IdleScrape

\* lines 52-65: POST /ingest/
ingest ==
    /\ Len(database) < MaxStore
    /\ \E req \in IngestInputs :
          /\ request' = [kind |-> "ingest"] @@ req
          /\ IF req.provider \notin RegisteredProviders
             THEN /\ response' = Answer(400, <<"Unknown provider: ", req.provider>>, <<>>)
                  /\ UNCHANGED database
             ELSE IF Adapter(req).ok
             THEN /\ database' = IngestStore(database, Adapter(req).records)
                  /\ response' = Answer(200, <<"success">>, Adapter(req).records)
             ELSE /\ response' = IngestFailure(Adapter(req))
                  /\ UNCHANGED database
    /\ UNCHANGED notIngest

\* lines 68-70: GET /data/
get_data ==
    /\ request' = [kind |-> "data"]
    /\ response' = Answer(200, <<>>, database)
    /\ UNCHANGED <<database, notIngest>>

Next == ingest \/ get_data

Spec == Init /\ [][Next]_vars

----------------------------------------------------------------------------
(* Properties of the dispatcher *)

Registered(req) == req.kind = "ingest" /\ req.provider \in RegisteredProviders

C2_FailureAnswers500StoreKept ==
    [][ (Registered(request') /\ ~Adapter(request').ok)
            => /\ response'.status = 500
               /\ response'.detail = <<"Ingestion failed: ">> \o ExcStr(Adapter(request'))
               /\ response'.records = <<>>
               /\ database' = database ]_vars

\* a validation failure of the tide-station adapter answered against a non-empty store
C2_Witness ==
    /\ Registered(request)
    /\ request.provider = "noaa"
    /\ ~Adapter(request).ok
    /\ Adapter(request).type = "HTTPException"
    /\ response.status = 500
    /\ database # <<>>

\* the failures C3 names, read off the request
C3ClientError(req) ==
    \/ /\ req.provider = "noaa"
       /\ \/ Falsy(Get(req.payload, "station", None))
          \/ Get(req.payload, "product", "water_temperature") \notin VALID_PRODUCTS
    \/ /\ req.provider = "worms"
       /\ "scientificname" \notin DOMAIN Get(req.payload, "params", <<>>)
       /\ "AphiaID" \notin DOMAIN Get(req.payload, "params", <<>>)

C3NotFound(req) ==
    /\ req.provider = "noaa"
    /\ ~C3ClientError(req)
    /\ req.upstream.data.status = "ok"
    /\ \/ "data" \notin DOMAIN req.upstream.data.json
       \/ req.upstream.data.json.data = <<>>

\* C3: at the ingestion endpoint a ClientError of an adapter is answered with
\* status 400, a tide-station response without data points with 404, and
\* only the remaining adapter failures with 500.
C3_ClientErrorsKeepTheirStatus ==
    (Registered(request) /\ ~Adapter(request).ok) =>
        response.status = IF C3ClientError(request) THEN 400
                          ELSE IF C3NotFound(request) THEN 404
                          ELSE 500

CoreProviders == {"open-meteo", "noaa", "obis", "worms", "bold", "fisheries", "cmfri"}

HasSource(r) ==
    /\ "source" \in DOMAIN r
    /\ \E i \in 1..Len(r.source) : r.source[i] # ""

HasTimestamp(r) == (DOMAIN r) \cap {"timestamp", "ingestion_timestamp"} # {}

\* C4: every record a core adapter returns, and so every record such a
\* request adds to the store, carries a non-empty source and a timestamp or
\* ingestion timestamp.
C4_RecordsCarrySourceAndTimestamp ==
    (Registered(request) /\ request.provider \in CoreProviders /\ response.status = 200) =>
        /\ \A i \in 1..Len(response.records) :
              HasSource(response.records[i]) /\ HasTimestamp(response.records[i])
        /\ \A i \in 1..Len(response.records) :
              HasSource(database[Len(database) - Len(response.records) + i])

----------------------------------------------------------------------------
(* tools/cmfritool.py: scrape_technical_reports step by step, with the record
   pages it fetches *)

MaxLinks       == 3     \* most links on the listing page
MaxScrapeLimit == 2     \* largest `limit` asked for

ScrapeHrefA == <<"/", "17001", "/">>
ScrapeHrefB == <<"/", "17002", "/">>

ScrapeListingLinks ==
    { [href |-> ScrapeHrefA, text |-> <<"Marine Fish Landings", " in India 2023">>],
      [href |-> ScrapeHrefB, text |-> <<"Estimated ", "Marine Fish Landings">>],
      [href |-> <<"/", "17003", "/">>, text |-> <<"Annual Report">>] }

ScrapePdf1 == <<"/", "17001", "/", "1", "/", "landings", ".pdf">>
ScrapePdf2 == <<"/", "17001", "/", "2", "/", "annex", ".pdf">>

ScrapeRecordPages ==
    { [status |-> "error"],
      [status |-> "ok", links |-> << <<"/", "help", ".html">> >>],
      [status |-> "ok", links |-> <<ScrapePdf1>>],
      [status |-> "ok", links |-> << <<"/", "help", ".html">>, ScrapePdf2, ScrapePdf1 >>] }

ScrapeSites ==
    { [listing |-> l,
       pages |-> (urljoin(EPRINTS_BASE, ScrapeHrefA) :> a)
                 @@ (urljoin(EPRINTS_BASE, ScrapeHrefB) :> b)] :
        l \in { [status |-> "error"] }
              \cup { [status |-> "ok", links |-> ls] :
                       ls \in SeqsUpTo(ScrapeListingLinks, MaxLinks) },
        a \in ScrapeRecordPages,
        b \in ScrapeRecordPages }

InitScrape ==
    /\ scIn \in [limit : 0..MaxScrapeLimit, site : ScrapeSites]
    /\ scPc = "get_listing"
    /\ scIdx = 0
    /\ scLinks = <<>>
    /\ scCount = 0
    /\ scFetched = <<>>
    /\ IdleIngest
    /\ IdleMeteo
    /\ IdleNoaa
    /\ IdleFish
    /\ IdleWorms
    /\ IdleSplit

\* line 37: the test that ends the loop
ScrapeEnough(count, limit) == count >= limit

\* lines 10-16: the listing page is fetched and parsed
ScrapeGetListing ==
    /\ scPc = "get_listing"
    /\ scPc' = IF scIn.site.listing.status # "ok" THEN "raised"
               ELSE IF scIn.site.listing.links = <<>> THEN "returned"
               ELSE "loop"
    /\ scIdx' = 1
    /\ UNCHANGED <<scIn, scLinks, scCount, scFetched, notScrape>>

\* where the loop goes after the link at scIdx, the count being `count`
ScrapeAdvance(count) ==
    IF ScrapeEnough(count, scIn.limit) \/ scIdx = Len(scIn.site.listing.links)
    THEN scPc' = "returned" /\ UNCHANGED scIdx
    ELSE scPc' = "loop" /\ scIdx' = scIdx + 1

\* lines 19-23, 37-38: a link whose text does not match; only the limit test runs
ScrapeSkipLink ==
    /\ scPc = "loop"
    /\ ~IsLandingsText(scIn.site.listing.links[scIdx].text)
    /\ ScrapeAdvance(scCount)
    /\ UNCHANGED <<scIn, scLinks, scCount, scFetched, notScrape>>

\* lines 19-38: a matching link; its record page is fetched, the first .pdf
\* link of the page is collected, then the limit test runs
ScrapeVisitLink ==
    /\ scPc = "loop"
    /\ IsLandingsText(scIn.site.listing.links[scIdx].text)
    /\ LET record_url == urljoin(EPRINTS_BASE, scIn.site.listing.links[scIdx].href)
           page       == scIn.site.pages[record_url]
       IN /\ scFetched' = Append(scFetched, [url |-> record_url, had |-> scCount])
          /\ IF page.status # "ok"
             THEN scPc' = "raised" /\ UNCHANGED <<scIdx, scLinks, scCount>>
             ELSE /\ scLinks' = scLinks \o FirstPdf(page.links)
                  /\ scCount' = scCount + Len(FirstPdf(page.links))
                  /\ ScrapeAdvance(scCount')
    /\ UNCHANGED <<scIn, notScrape>>

NextScrape == ScrapeGetListing \/ ScrapeSkipLink \/ ScrapeVisitLink

SpecScrape == InitScrape /\ [][NextScrape]_vars

\* what the record pages fetched so far offer: the first .pdf link of each
ScrapeOffered ==
    Concat([i \in 1..Len(scFetched) |->
               IF scIn.site.pages[scFetched[i].url].status = "ok"
               THEN FirstPdf(scIn.site.pages[scFetched[i].url].links)
               ELSE <<>>])

\* C11: for every listing page and every limit, 0 included, discovery holds
\* at most `limit` document URLs, each fetched record page has contributed at
\* most one URL (its first link ending in .pdf), and no record page is
\* fetched once `limit` URLs have been collected.
C11_DiscoveryStopsAtLimit ==
    /\ Len(scLinks) <= scIn.limit
    /\ scLinks = ScrapeOffered
    /\ Len(scLinks) <= Len(scFetched)
    /\ \A i \in 1..Len(scFetched) : scFetched[i].had < scIn.limit

====
